---- MODULE Spec2Model ----
(***************************************************************************)
(* Employee management service (waley-code/employeeManagement).            *)
(*                                                                         *)
(* Two modules of the repository are modelled, each with its own in-memory *)
(* SQLite database:                                                        *)
(*   - the Express server (serverextra.js): HTTP requests are dispatched   *)
(*     by the router to the first registered route that matches, and the   *)
(*     handler runs one SQL statement and maps its outcome to a response;  *)
(*   - the standalone data-access module (dataAccess.js): each exported    *)
(*     function runs one SQL statement and hands the outcome to a callback.*)
(*                                                                         *)
(* Text is a sequence of one-character strings, so that LIKE matching,     *)
(* case folding and SQLite's text/integer conversions are computed.        *)
(***************************************************************************)
EXTENDS Integers, Sequences, FiniteSets, TLC

VARIABLES
    module,     \* which module's database this is: "server" or "dataAccess"
    employees,  \* table employees: function rowid -> [name, role, status]
    seq,        \* sqlite_sequence entry of employees (largest rowid ever used)
    roles,      \* table roles: sequence of name values, in insertion order
    resp,       \* the last response sent (or callback invoked)
    idLog,      \* history: the ids returned by successful creates, in order
    scen        \* history: progress through the role scenario (0..4)

vars == <<module, employees, seq, roles, resp, idLog, scen>>

---------------------------------------------------------------------------
(* Bounds *)

\* sqlite_sequence is not advanced beyond MaxSeq (inserts stop there).
MaxSeq == 3

\* At most MaxRows employee rows are stored at once.
MaxRows == 2

---------------------------------------------------------------------------
(* Values *)

\* SQL NULL and JavaScript undefined; neither is a Text (a Text holds only
\* one-character strings).
NULL == <<"NULL">>
UNDEFINED == <<"undefined">>

Ana == <<"A", "n", "a">>
Bo == <<"B", "o">>
Eng == <<"e", "n", "g">>
Ops == <<"o", "p", "s">>
Active == <<"a", "c", "t", "i", "v", "e">>
Empty == <<>>

UpperCase == <<"A", "B", "C", "D", "E", "F", "G", "H", "I", "J", "K", "L", "M",
               "N", "O", "P", "Q", "R", "S", "T", "U", "V", "W", "X", "Y", "Z">>
LowerCase == <<"a", "b", "c", "d", "e", "f", "g", "h", "i", "j", "k", "l", "m",
               "n", "o", "p", "q", "r", "s", "t", "u", "v", "w", "x", "y", "z">>
Digits == <<"0", "1", "2", "3", "4", "5", "6", "7", "8", "9">>

IsText(v) == v # NULL /\ v # UNDEFINED

IsDigit(c) == \E i \in 1..10 : Digits[i] = c

DigitVal(c) == (CHOOSE i \in 1..10 : Digits[i] = c) - 1

\* The decimal numeral of a natural number, as JavaScript and SQLite print it.
RECURSIVE IntToText(_)
IntToText(n) ==
    IF n < 10 THEN <<Digits[n + 1]>>
    ELSE Append(IntToText(n \div 10), Digits[(n % 10) + 1])

\* The value of a text of digits.
RECURSIVE TextToInt(_)
TextToInt(t) ==
    IF t = <<>> THEN 0
    ELSE 10 * TextToInt(SubSeq(t, 1, Len(t) - 1)) + DigitVal(t[Len(t)])

\* ASCII case folding, as SQLite's LIKE does it.
ToLower(c) ==
    IF \E i \in 1..26 : UpperCase[i] = c
    THEN LowerCase[CHOOSE i \in 1..26 : UpperCase[i] = c]
    ELSE c

\* node-sqlite3 leaves an undefined parameter unbound, and SQLite reads an
\* unbound parameter as NULL.
Bind(v) == IF v = UNDEFINED THEN NULL ELSE v

\* JavaScript's !v for a string or undefined.
Falsy(v) == v = UNDEFINED \/ v = Empty

\* A text parameter compared with the INTEGER PRIMARY KEY: numeric affinity
\* turns a text of digits into its integer; any other text equals no rowid.
NoRowid == 0 - 1
RowidOfText(v) ==
    IF IsText(v) /\ v # <<>> /\ \A i \in 1..Len(v) : IsDigit(v[i])
    THEN TextToInt(v)
    ELSE NoRowid

Max(a, b) == IF a >= b THEN a ELSE b

MaxRowid(emps) ==
    IF DOMAIN emps = {} THEN 0
    ELSE CHOOSE m \in DOMAIN emps : \A i \in DOMAIN emps : i <= m

RECURSIVE Ascending(_)
Ascending(S) ==
    IF S = {} THEN <<>>
    ELSE LET m == CHOOSE x \in S : \A y \in S : x <= y
         IN  <<m>> \o Ascending(S \ {m})

\* A selected row of employees, as the driver hands it to the callback.
RowRecord(emps, id) ==
    [id |-> id, name |-> emps[id].name, role |-> emps[id].role,
     status |-> emps[id].status]

---------------------------------------------------------------------------
(* The SQL statements *)

\* CREATE TABLE employees (id INTEGER PRIMARY KEY AUTOINCREMENT, ...): the
\* new rowid is one more than the largest rowid ever used in the table.
NextRowidReusing(emps, s) == MaxRowid(emps) + 1
NextRowid(emps, s) == Max(s, MaxRowid(emps)) + 1

\* INSERT INTO employees (name, role, status) VALUES (?, ?, ?)
SqlInsertEmployee(emps, s, name, role, status) ==
    LET id == NextRowid(emps, s)
        row == [name |-> Bind(name), role |-> Bind(role), status |-> Bind(status)]
    IN  [employees |-> [i \in DOMAIN emps \cup {id} |->
                           IF i = id THEN row ELSE emps[i]],
         seq |-> id, lastID |-> id, changes |-> 1]

\* SELECT * FROM employees WHERE id = ?
SqlSelectEmployee(emps, rowid) ==
    IF rowid \in DOMAIN emps THEN <<RowRecord(emps, rowid)>> ELSE <<>>

\* UPDATE employees SET name = ?, role = ?, status = ? WHERE id = ?
SqlUpdateEmployeeKeeping(emps, rowid, name, role, status) ==
    IF rowid \in DOMAIN emps
    THEN [employees |-> [emps EXCEPT ![rowid] =
                            [name |-> IF name = UNDEFINED THEN @.name ELSE name,
                             role |-> IF role = UNDEFINED THEN @.role ELSE role,
                             status |-> IF status = UNDEFINED THEN @.status
                                        ELSE status]],
          changes |-> 1]
    ELSE [employees |-> emps, changes |-> 0]
SqlUpdateEmployee(emps, rowid, name, role, status) ==
    IF rowid \in DOMAIN emps
    THEN [employees |-> [emps EXCEPT ![rowid] =
                            [name |-> Bind(name), role |-> Bind(role),
                             status |-> Bind(status)]],
          changes |-> 1]
    ELSE [employees |-> emps, changes |-> 0]

\* DELETE FROM employees WHERE id = ?
SqlDeleteEmployee(emps, rowid) ==
    IF rowid \in DOMAIN emps
    THEN [employees |-> [i \in DOMAIN emps \ {rowid} |-> emps[i]], changes |-> 1]
    ELSE [employees |-> emps, changes |-> 0]

\* UPDATE employees SET role = ? WHERE id = ?
SqlUpdateRole(emps, role, rowid) ==
    IF rowid \in DOMAIN emps
    THEN [employees |-> [emps EXCEPT ![rowid].role = Bind(role)], changes |-> 1]
    ELSE [employees |-> emps, changes |-> 0]

\* UPDATE employees SET status = ? WHERE id = ?
SqlUpdateStatus(emps, status, rowid) ==
    IF rowid \in DOMAIN emps
    THEN [employees |-> [emps EXCEPT ![rowid].status = Bind(status)], changes |-> 1]
    ELSE [employees |-> emps, changes |-> 0]

\* x LIKE pattern, SQLite's default: % matches any run of characters, _ any
\* one character, and letters match without regard to ASCII case.
RECURSIVE LikeCaseSensitive(_, _)
LikeCaseSensitive(p, s) ==
    IF p = <<>> THEN s = <<>>
    ELSE IF Head(p) = "%"
    THEN \E k \in 0..Len(s) : LikeCaseSensitive(Tail(p), SubSeq(s, k + 1, Len(s)))
    ELSE /\ s # <<>>
         /\ Head(p) = "_" \/ Head(p) = Head(s)
         /\ LikeCaseSensitive(Tail(p), Tail(s))
RECURSIVE Like(_, _)
Like(p, s) ==
    IF p = <<>> THEN s = <<>>
    ELSE IF Head(p) = "%"
    THEN \E k \in 0..Len(s) : Like(Tail(p), SubSeq(s, k + 1, Len(s)))
    ELSE /\ s # <<>>
         /\ Head(p) = "_" \/ ToLower(Head(p)) = ToLower(Head(s))
         /\ Like(Tail(p), Tail(s))

\* SELECT * FROM employees WHERE name LIKE ?   (a NULL name matches nothing)
SqlSelectNameLike(emps, pattern) ==
    LET hit == {i \in DOMAIN emps : emps[i].name # NULL /\ Like(pattern, emps[i].name)}
        ids == Ascending(hit)
    IN  [k \in 1..Len(ids) |-> RowRecord(emps, ids[k])]

\* SELECT * FROM employees WHERE name = ?
SqlSelectNameEquals(emps, name) ==
    LET hit == {i \in DOMAIN emps : emps[i].name # NULL /\ emps[i].name = Bind(name)}
        ids == Ascending(hit)
    IN  [k \in 1..Len(ids) |-> RowRecord(emps, ids[k])]

\* SELECT COUNT(*) AS totalEmployees FROM employees
SqlCountEmployees(emps) == Cardinality(DOMAIN emps)

\* SELECT COUNT(*) AS totalRoles FROM roles
SqlCountRoles(rls) == Len(rls)

\* INSERT INTO roles (name) VALUES (?) with name TEXT PRIMARY KEY: the insert
\* fails with SQLITE_CONSTRAINT when a row already holds the name.
SqlInsertRoleUnchecked(rls, name) ==
    [roles |-> Append(rls, name), err |-> ""]
SqlInsertRole(rls, name) ==
    IF \E i \in 1..Len(rls) : rls[i] = name
    THEN [roles |-> rls, err |-> "SQLITE_CONSTRAINT"]
    ELSE [roles |-> Append(rls, name), err |-> ""]

\* DELETE FROM roles WHERE name = ?
SqlDeleteRole(rls, name) ==
    [roles |-> SelectSeq(rls, LAMBDA n : n # name),
     changes |-> Cardinality({i \in 1..Len(rls) : rls[i] = name})]

\* SELECT employees.*, roles.name AS roleName FROM employees
\*   LEFT JOIN roles ON employees.role = roles.name WHERE employees.id = ?
\* One joined row per matching roles row; a row with roleName NULL when no
\* roles row matches (a NULL role equals nothing).
JoinedRow(emps, id, roleName) ==
    [id |-> id, name |-> emps[id].name, role |-> emps[id].role,
     status |-> emps[id].status, roleName |-> roleName]
SqlSelectDetailsInner(emps, rls, rowid) ==
    IF rowid \notin DOMAIN emps THEN <<>>
    ELSE LET m == SelectSeq(rls, LAMBDA n : emps[rowid].role # NULL /\ n = emps[rowid].role)
         IN  [k \in 1..Len(m) |-> JoinedRow(emps, rowid, m[k])]
SqlSelectDetails(emps, rls, rowid) ==
    IF rowid \notin DOMAIN emps THEN <<>>
    ELSE LET m == SelectSeq(rls, LAMBDA n : emps[rowid].role # NULL /\ n = emps[rowid].role)
         IN  IF m = <<>> THEN <<JoinedRow(emps, rowid, NULL)>>
             ELSE [k \in 1..Len(m) |-> JoinedRow(emps, rowid, m[k])]

---------------------------------------------------------------------------
(* The router of the server *)

S_employees == <<"e", "m", "p", "l", "o", "y", "e", "e", "s">>
S_search == <<"s", "e", "a", "r", "c", "h">>
S_assign_role == <<"a", "s", "s", "i", "g", "n", "-", "r", "o", "l", "e">>
S_details == <<"d", "e", "t", "a", "i", "l", "s">>
S_admin == <<"a", "d", "m", "i", "n">>
S_total_employees == <<"t", "o", "t", "a", "l", "-", "e", "m", "p", "l", "o", "y", "e", "e", "s">>
S_total_roles == <<"t", "o", "t", "a", "l", "-", "r", "o", "l", "e", "s">>
S_create_role == <<"c", "r", "e", "a", "t", "e", "-", "r", "o", "l", "e">>
S_delete_role == <<"d", "e", "l", "e", "t", "e", "-", "r", "o", "l", "e">>
S_update_status == <<"u", "p", "d", "a", "t", "e", "-", "s", "t", "a", "t", "u", "s">>
P_id == <<":", "i", "d">>
P_name == <<":", "n", "a", "m", "e">>

\* The routes in the order the server registers them; each request goes to
\* the first route whose method and path match, and that handler answers.
Routes ==
    << [method |-> "POST",   path |-> <<S_employees>>,                      handler |-> "createEmployee"],
       [method |-> "GET",    path |-> <<S_employees, P_id>>,                handler |-> "getEmployee"],
       [method |-> "PUT",    path |-> <<S_employees, P_id>>,                handler |-> "updateEmployee"],
       [method |-> "DELETE", path |-> <<S_employees, P_id>>,                handler |-> "deleteEmployee"],
       [method |-> "POST",   path |-> <<S_employees, P_id, S_assign_role>>, handler |-> "assignRole"],
       [method |-> "GET",    path |-> <<S_employees, S_search>>,            handler |-> "searchEmployees"],
       [method |-> "GET",    path |-> <<S_admin, S_total_employees>>,       handler |-> "totalEmployees"],
       [method |-> "GET",    path |-> <<S_admin, S_total_roles>>,           handler |-> "totalRoles"],
       [method |-> "POST",   path |-> <<S_admin, S_create_role>>,           handler |-> "createRole"],
       [method |-> "DELETE", path |-> <<S_admin, S_delete_role, P_name>>,   handler |-> "deleteRole"],
       [method |-> "PUT",    path |-> <<S_admin, S_update_status, P_id>>,   handler |-> "updateStatus"],
       [method |-> "GET",    path |-> <<S_employees, P_id, S_details>>,     handler |-> "employeeDetails"] >>

\* A pattern segment :x matches any non-empty path segment; any other
\* pattern segment matches itself.
IsParam(seg) == seg # <<>> /\ Head(seg) = ":"

PathMatches(pattern, path) ==
    /\ Len(pattern) = Len(path)
    /\ \A i \in 1..Len(pattern) :
          IF IsParam(pattern[i]) THEN path[i] # <<>> ELSE pattern[i] = path[i]

RouteMatches(route, req) ==
    route.method = req.method /\ PathMatches(route.path, req.path)

\* The handler that answers req: that of the first matching route.
Dispatch(req) ==
    LET hits == {i \in 1..Len(Routes) : RouteMatches(Routes[i], req)}
    IN  IF hits = {} THEN "none"
        ELSE Routes[CHOOSE i \in hits : \A j \in hits : i <= j].handler

---------------------------------------------------------------------------
(* The requests and calls considered *)

NoBody == [name |-> UNDEFINED, role |-> UNDEFINED, status |-> UNDEFINED]

Req(method, path, query, body) ==
    [method |-> method, path |-> path, query |-> query, body |-> body]

IdParams == {IntToText(i) : i \in 1..MaxSeq}

Queries == {Empty, <<"a">>, <<"A", "N">>, <<"n", "a">>, <<"_", "o">>, <<"%">>,
            <<"x">>, Ana}

Body(name, role, status) == [name |-> name, role |-> role, status |-> status]

\* Two complete employees, and one of them with each field missing or empty.
CreateBodies ==
    {Body(Ana, Eng, Active), Body(Bo, Eng, Active)}
    \cup {Body(v, Eng, Active) : v \in {UNDEFINED, Empty}}
    \cup {Body(Ana, v, Active) : v \in {UNDEFINED, Empty}}
    \cup {Body(Ana, Eng, v) : v \in {UNDEFINED, Empty}}

\* A complete replacement, and two with fields left out.
UpdateBodies ==
    {Body(Bo, Ops, Active), Body(UNDEFINED, Eng, Active), Body(Bo, UNDEFINED, UNDEFINED)}

RoleBodies == {Body(UNDEFINED, Eng, UNDEFINED)}

StatusBodies == {Body(UNDEFINED, UNDEFINED, Active)}

RoleNameBodies == {Body(v, UNDEFINED, UNDEFINED) : v \in {Eng, UNDEFINED, Empty}}

RoleNameParams == {Eng}

SearchRequests ==
    {Req("GET", <<S_employees, S_search>>, q, NoBody) : q \in Queries}

Requests ==
    {Req("POST", <<S_employees>>, UNDEFINED, b) : b \in CreateBodies}
    \cup {Req("GET", <<S_employees, p>>, UNDEFINED, NoBody) : p \in IdParams}
    \cup SearchRequests
    \cup {Req("PUT", <<S_employees, pb[1]>>, UNDEFINED, pb[2]) : pb \in IdParams \X UpdateBodies}
    \cup {Req("DELETE", <<S_employees, p>>, UNDEFINED, NoBody) : p \in IdParams}
    \cup {Req("POST", <<S_employees, pb[1], S_assign_role>>, UNDEFINED, pb[2]) :
             pb \in IdParams \X RoleBodies}
    \cup {Req("GET", <<S_admin, S_total_employees>>, UNDEFINED, NoBody)}
    \cup {Req("GET", <<S_admin, S_total_roles>>, UNDEFINED, NoBody)}
    \cup {Req("POST", <<S_admin, S_create_role>>, UNDEFINED, b) : b \in RoleNameBodies}
    \cup {Req("DELETE", <<S_admin, S_delete_role, n>>, UNDEFINED, NoBody) : n \in RoleNameParams}
    \cup {Req("PUT", <<S_admin, S_update_status, pb[1]>>, UNDEFINED, pb[2]) :
             pb \in IdParams \X StatusBodies}
    \cup {Req("GET", <<S_employees, p, S_details>>, UNDEFINED, NoBody) : p \in IdParams}

\* The requests the router hands to each handler.
CreateEmployeeRequests == {r \in Requests : Dispatch(r) = "createEmployee"}
GetEmployeeRequests == {r \in Requests : Dispatch(r) = "getEmployee"}
UpdateEmployeeRequests == {r \in Requests : Dispatch(r) = "updateEmployee"}
DeleteEmployeeRequests == {r \in Requests : Dispatch(r) = "deleteEmployee"}
AssignRoleRequests == {r \in Requests : Dispatch(r) = "assignRole"}
SearchEmployeesRequests == {r \in Requests : Dispatch(r) = "searchEmployees"}
TotalEmployeesRequests == {r \in Requests : Dispatch(r) = "totalEmployees"}
TotalRolesRequests == {r \in Requests : Dispatch(r) = "totalRoles"}
CreateRoleRequests == {r \in Requests : Dispatch(r) = "createRole"}
DeleteRoleRequests == {r \in Requests : Dispatch(r) = "deleteRole"}
UpdateStatusRequests == {r \in Requests : Dispatch(r) = "updateStatus"}
EmployeeDetailsRequests == {r \in Requests : Dispatch(r) = "employeeDetails"}

---------------------------------------------------------------------------
(* Responses *)

Response(handler, param, status, value) ==
    [handler |-> handler, param |-> param, status |-> status, value |-> value]

JsonError(msg) == <<[error |-> msg]>>
JsonMessage(msg) == <<[message |-> msg]>>

\* res.json({ id, name, role, status }): JSON.stringify drops the keys whose
\* value is undefined.
JsonEcho(id, body) ==
    LET keys == {"id"} \cup {k \in {"name", "role", "status"} : body[k] # UNDEFINED}
    IN  <<[k \in keys |-> IF k = "id" THEN id ELSE body[k]]>>

\* The role scenario of the specification: create eng, create eng, delete
\* eng, delete eng, starting where no role eng exists. scen counts how many
\* of its requests have just been made in a row.
ScenAfter(handler, name) ==
    IF handler = "createRole" /\ name = Eng /\ scen = 1 THEN 2
    ELSE IF handler = "createRole" /\ name = Eng /\ ~(\E i \in 1..Len(roles) : roles[i] = Eng) THEN 1
    ELSE IF handler = "deleteRole" /\ name = Eng /\ scen = 2 THEN 3
    ELSE IF handler = "deleteRole" /\ name = Eng /\ scen = 3 THEN 4
    ELSE 0

\* Inserts stop at the model's bounds.
RoomToInsert == seq < MaxSeq /\ Cardinality(DOMAIN employees) < MaxRows

---------------------------------------------------------------------------
(* The handlers of the server *)

\* if (!name || !role || !status)
MissingCreateFieldsIgnoringStatus(body) == Falsy(body.name) \/ Falsy(body.role)
MissingCreateFields(body) ==
    Falsy(body.name) \/ Falsy(body.role) \/ Falsy(body.status)

\* app.post('/employees')
CreateEmployeeOn(req) ==
    /\ module = "server"
    /\ IF MissingCreateFields(req.body)
       THEN /\ resp' = Response("createEmployee", <<>>, 400,
                                JsonError("Missing required fields."))
            /\ UNCHANGED <<employees, seq, idLog>>
       ELSE LET ins == SqlInsertEmployee(employees, seq, req.body.name,
                                         req.body.role, req.body.status)
            IN  /\ RoomToInsert
                /\ employees' = ins.employees
                /\ seq' = ins.seq
                /\ idLog' = Append(idLog, ins.lastID)
                /\ resp' = Response("createEmployee", <<>>, 201,
                                    <<[id |-> ins.lastID, name |-> req.body.name,
                                       role |-> req.body.role,
                                       status |-> req.body.status]>>)
    /\ scen' = ScenAfter("createEmployee", <<>>)
    /\ UNCHANGED <<module, roles>>

CreateEmployee == \E req \in CreateEmployeeRequests : CreateEmployeeOn(req)

\* The answer of app.get('/employees/:id') to the id parameter p.
GetEmployeeResponse(emps, p) ==
    LET rows == SqlSelectEmployee(emps, RowidOfText(p))
    IN  IF rows = <<>>
        THEN Response("getEmployee", p, 404, JsonError("Employee not found."))
        ELSE Response("getEmployee", p, 200, <<rows[1]>>)

\* app.get('/employees/:id')
GetEmployeeOn(req) ==
    /\ module = "server"
    /\ resp' = GetEmployeeResponse(employees, req.path[2])
    /\ scen' = ScenAfter("getEmployee", <<>>)
    /\ UNCHANGED <<module, employees, seq, roles, idLog>>

GetEmployee == \E req \in GetEmployeeRequests : GetEmployeeOn(req)

\* app.put('/employees/:id')
UpdateEmployeeOn(req) ==
    LET p == req.path[2]
        upd == SqlUpdateEmployee(employees, RowidOfText(p), req.body.name,
                                 req.body.role, req.body.status)
    IN  /\ module = "server"
        /\ employees' = upd.employees
        /\ resp' = IF upd.changes = 0
                   THEN Response("updateEmployee", p, 404,
                                 JsonError("Employee not found."))
                   ELSE Response("updateEmployee", p, 200, JsonEcho(p, req.body))
        /\ scen' = ScenAfter("updateEmployee", <<>>)
        /\ UNCHANGED <<module, seq, roles, idLog>>

UpdateEmployee == \E req \in UpdateEmployeeRequests : UpdateEmployeeOn(req)

\* app.delete('/employees/:id')
DeleteEmployeeOn(req) ==
    LET p == req.path[2]
        del == SqlDeleteEmployee(employees, RowidOfText(p))
    IN  /\ module = "server"
        /\ employees' = del.employees
        /\ resp' = IF del.changes = 0
                   THEN Response("deleteEmployee", p, 404,
                                 JsonError("Employee not found."))
                   ELSE Response("deleteEmployee", p, 200,
                                 JsonMessage("Employee deleted successfully."))
        /\ scen' = ScenAfter("deleteEmployee", <<>>)
        /\ UNCHANGED <<module, seq, roles, idLog>>

DeleteEmployee == \E req \in DeleteEmployeeRequests : DeleteEmployeeOn(req)

\* app.post('/employees/:id/assign-role')
AssignRoleOn(req) ==
    LET p == req.path[2]
        upd == SqlUpdateRole(employees, req.body.role, RowidOfText(p))
    IN  /\ module = "server"
        /\ employees' = upd.employees
        /\ resp' = IF upd.changes = 0
                   THEN Response("assignRole", p, 404,
                                 JsonError("Employee not found."))
                   ELSE Response("assignRole", p, 200,
                                 JsonMessage("Role assigned successfully."))
        /\ scen' = ScenAfter("assignRole", <<>>)
        /\ UNCHANGED <<module, seq, roles, idLog>>

AssignRole == \E req \in AssignRoleRequests : AssignRoleOn(req)

\* The answer of app.get('/employees/search') to the query parameter name.
SearchEmployeesResponse(emps, name) ==
    LET rows == SqlSelectNameLike(emps, <<"%">> \o name \o <<"%">>)
    IN  IF rows = <<>>
        THEN Response("searchEmployees", name, 404, JsonError("Employee not found."))
        ELSE Response("searchEmployees", name, 200, rows)

\* app.get('/employees/search')
SearchEmployeesOn(req) ==
    /\ module = "server"
    /\ resp' = SearchEmployeesResponse(employees, req.query)
    /\ scen' = ScenAfter("searchEmployees", <<>>)
    /\ UNCHANGED <<module, employees, seq, roles, idLog>>

\* The handler as the router reaches it: for no request (see Next).
SearchEmployees == \E req \in SearchEmployeesRequests : SearchEmployeesOn(req)

\* The handler called with a search request, without the router.
SearchEmployeesCalled == \E req \in SearchRequests : SearchEmployeesOn(req)

\* app.get('/admin/total-employees')
TotalEmployeesOn(req) ==
    /\ module = "server"
    /\ resp' = Response("totalEmployees", <<>>, 200,
                        <<[totalEmployees |-> SqlCountEmployees(employees)]>>)
    /\ scen' = ScenAfter("totalEmployees", <<>>)
    /\ UNCHANGED <<module, employees, seq, roles, idLog>>

TotalEmployees == \E req \in TotalEmployeesRequests : TotalEmployeesOn(req)

\* app.get('/admin/total-roles')
TotalRolesOn(req) ==
    /\ module = "server"
    /\ resp' = Response("totalRoles", <<>>, 200,
                        <<[totalRoles |-> SqlCountRoles(roles)]>>)
    /\ scen' = ScenAfter("totalRoles", <<>>)
    /\ UNCHANGED <<module, employees, seq, roles, idLog>>

TotalRoles == \E req \in TotalRolesRequests : TotalRolesOn(req)

\* app.post('/admin/create-role')
CreateRoleOn(req) ==
    LET name == req.body.name
        ins == SqlInsertRole(roles, name)
    IN  /\ module = "server"
        /\ IF Falsy(name)
           THEN /\ resp' = Response("createRole", name, 400,
                                    JsonError("Missing role name."))
                /\ roles' = roles
           ELSE /\ roles' = ins.roles
                /\ resp' = IF ins.err # ""
                           THEN Response("createRole", name, 500,
                                         JsonError("Failed to create role."))
                           ELSE Response("createRole", name, 201, <<[name |-> name]>>)
        /\ scen' = ScenAfter("createRole", name)
        /\ UNCHANGED <<module, employees, seq, idLog>>

CreateRole == \E req \in CreateRoleRequests : CreateRoleOn(req)

\* app.delete('/admin/delete-role/:name'), were the delete to cascade to the
\* employees that hold the role (as ON DELETE SET NULL would).
DeleteRoleCascadingOn(req) ==
    LET name == req.path[3]
        del == SqlDeleteRole(roles, name)
    IN  /\ module = "server"
        /\ roles' = del.roles
        /\ employees' = [i \in DOMAIN employees |->
                            IF employees[i].role = name
                            THEN [employees[i] EXCEPT !.role = NULL]
                            ELSE employees[i]]
        /\ resp' = IF del.changes = 0
                   THEN Response("deleteRole", name, 404, JsonError("Role not found."))
                   ELSE Response("deleteRole", name, 200,
                                 JsonMessage("Role deleted successfully."))
        /\ scen' = ScenAfter("deleteRole", name)
        /\ UNCHANGED <<module, seq, idLog>>

\* app.delete('/admin/delete-role/:name')
DeleteRoleOn(req) ==
    LET name == req.path[3]
        del == SqlDeleteRole(roles, name)
    IN  /\ module = "server"
        /\ roles' = del.roles
        /\ resp' = IF del.changes = 0
                   THEN Response("deleteRole", name, 404, JsonError("Role not found."))
                   ELSE Response("deleteRole", name, 200,
                                 JsonMessage("Role deleted successfully."))
        /\ scen' = ScenAfter("deleteRole", name)
        /\ UNCHANGED <<module, employees, seq, idLog>>

DeleteRole == \E req \in DeleteRoleRequests : DeleteRoleOn(req)

\* app.put('/admin/update-status/:id')
UpdateStatusOn(req) ==
    LET p == req.path[3]
        upd == SqlUpdateStatus(employees, req.body.status, RowidOfText(p))
    IN  /\ module = "server"
        /\ employees' = upd.employees
        /\ resp' = IF upd.changes = 0
                   THEN Response("updateStatus", p, 404,
                                 JsonError("Employee not found."))
                   ELSE Response("updateStatus", p, 200,
                                 JsonMessage("Employee status updated successfully."))
        /\ scen' = ScenAfter("updateStatus", <<>>)
        /\ UNCHANGED <<module, seq, roles, idLog>>

UpdateStatus == \E req \in UpdateStatusRequests : UpdateStatusOn(req)

\* The answer of app.get('/employees/:id/details') to the id parameter p.
EmployeeDetailsResponse(emps, rls, p) ==
    LET rows == SqlSelectDetails(emps, rls, RowidOfText(p))
    IN  IF rows = <<>>
        THEN Response("employeeDetails", p, 404, JsonError("Employee not found."))
        ELSE Response("employeeDetails", p, 200, <<rows[1]>>)

\* app.get('/employees/:id/details')
EmployeeDetailsOn(req) ==
    /\ module = "server"
    /\ resp' = EmployeeDetailsResponse(employees, roles, req.path[2])
    /\ scen' = ScenAfter("employeeDetails", <<>>)
    /\ UNCHANGED <<module, employees, seq, roles, idLog>>

EmployeeDetails == \E req \in EmployeeDetailsRequests : EmployeeDetailsOn(req)

---------------------------------------------------------------------------
(* The functions of the data-access module *)

\* What db.run hands to the callback: the error, and this.lastID/this.changes.
RunResult(err, lastID, changes) ==
    <<[err |-> err, lastID |-> lastID, changes |-> changes]>>

DaIds == 1..MaxSeq
DaCreateArgs == {Body(Ana, Eng, Active), Body(Bo, Eng, Active),
                 Body(UNDEFINED, Eng, Active)}
DaAssignIds == {2}
DaAssignRoles == {Eng, <<"1">>}
DaRoleNames == {Eng}

\* dataAccess.createEmployee
DaCreateEmployee ==
    \E a \in DaCreateArgs :
        LET ins == SqlInsertEmployee(employees, seq, a.name, a.role, a.status)
        IN  /\ module = "dataAccess"
            /\ RoomToInsert
            /\ employees' = ins.employees
            /\ seq' = ins.seq
            /\ idLog' = Append(idLog, ins.lastID)
            /\ resp' = Response("dataAccess.createEmployee", <<>>, 0,
                                RunResult("", ins.lastID, ins.changes))
            /\ UNCHANGED <<module, roles, scen>>

\* dataAccess.getEmployeeById
DaGetEmployeeById ==
    \E id \in DaIds :
        /\ module = "dataAccess"
        /\ resp' = Response("dataAccess.getEmployeeById", IntToText(id), 0,
                            SqlSelectEmployee(employees, id))
        /\ UNCHANGED <<module, employees, seq, roles, idLog, scen>>

\* dataAccess.updateEmployee
DaUpdateEmployeeOn(id, a) ==
    LET upd == SqlUpdateEmployee(employees, id, a.name, a.role, a.status)
    IN  /\ module = "dataAccess"
        /\ employees' = upd.employees
        /\ resp' = Response("dataAccess.updateEmployee", IntToText(id), 0,
                            RunResult("", seq, upd.changes))
        /\ UNCHANGED <<module, seq, roles, idLog, scen>>

DaUpdateEmployee == \E id \in DaIds, a \in UpdateBodies : DaUpdateEmployeeOn(id, a)

\* dataAccess.deleteEmployee
DaDeleteEmployeeOn(id) ==
    LET del == SqlDeleteEmployee(employees, id)
    IN  /\ module = "dataAccess"
        /\ employees' = del.employees
        /\ resp' = Response("dataAccess.deleteEmployee", IntToText(id), 0,
                            RunResult("", seq, del.changes))
        /\ UNCHANGED <<module, seq, roles, idLog, scen>>

DaDeleteEmployee == \E id \in DaIds : DaDeleteEmployeeOn(id)

\* dataAccess.assignRoleToEmployee: the parameters are bound as [id, role],
\* so id is the value SET into role (TEXT affinity stores its numeral) and
\* role is the value compared with the rowid.
DaAssignRoleToEmployeeOn(id, role) ==
    LET upd == SqlUpdateRole(employees, IntToText(id), RowidOfText(role))
    IN  /\ module = "dataAccess"
        /\ employees' = upd.employees
        /\ resp' = Response("dataAccess.assignRoleToEmployee",
                            <<IntToText(id), role>>, 0,
                            RunResult("", seq, upd.changes))
        /\ UNCHANGED <<module, seq, roles, idLog, scen>>

DaAssignRoleToEmployee ==
    \E id \in DaAssignIds, role \in DaAssignRoles : DaAssignRoleToEmployeeOn(id, role)

\* dataAccess.searchEmployeesByName
DaSearchEmployeesByName ==
    \E name \in Queries :
        /\ module = "dataAccess"
        /\ resp' = Response("dataAccess.searchEmployeesByName", name, 0,
                            SqlSelectNameEquals(employees, name))
        /\ UNCHANGED <<module, employees, seq, roles, idLog, scen>>

\* dataAccess.getTotalEmployees
DaGetTotalEmployees ==
    /\ module = "dataAccess"
    /\ resp' = Response("dataAccess.getTotalEmployees", <<>>, 0,
                        <<[totalEmployees |-> SqlCountEmployees(employees)]>>)
    /\ UNCHANGED <<module, employees, seq, roles, idLog, scen>>

\* dataAccess.getTotalRoles
DaGetTotalRoles ==
    /\ module = "dataAccess"
    /\ resp' = Response("dataAccess.getTotalRoles", <<>>, 0,
                        <<[totalRoles |-> SqlCountRoles(roles)]>>)
    /\ UNCHANGED <<module, employees, seq, roles, idLog, scen>>

\* dataAccess.createRole
DaCreateRole ==
    \E name \in DaRoleNames :
        LET ins == SqlInsertRole(roles, name)
        IN  /\ module = "dataAccess"
            /\ roles' = ins.roles
            /\ resp' = Response("dataAccess.createRole", name, 0,
                                RunResult(ins.err, seq, IF ins.err = "" THEN 1 ELSE 0))
            /\ UNCHANGED <<module, employees, seq, idLog, scen>>

\* dataAccess.deleteRole
DaDeleteRoleOn(name) ==
    LET del == SqlDeleteRole(roles, name)
    IN  /\ module = "dataAccess"
        /\ roles' = del.roles
        /\ resp' = Response("dataAccess.deleteRole", name, 0,
                            RunResult("", seq, del.changes))
        /\ UNCHANGED <<module, employees, seq, idLog, scen>>

DaDeleteRole == \E name \in DaRoleNames : DaDeleteRoleOn(name)

\* dataAccess.updateEmployeeStatus
DaUpdateEmployeeStatusOn(id, status) ==
    LET upd == SqlUpdateStatus(employees, status, id)
    IN  /\ module = "dataAccess"
        /\ employees' = upd.employees
        /\ resp' = Response("dataAccess.updateEmployeeStatus", IntToText(id), 0,
                            RunResult("", seq, upd.changes))
        /\ UNCHANGED <<module, seq, roles, idLog, scen>>

DaUpdateEmployeeStatus ==
    \E id \in DaIds : DaUpdateEmployeeStatusOn(id, Active)

\* dataAccess.getEmployeeDetails
DaGetEmployeeDetailsOn(id) ==
    LET rows == SqlSelectDetails(employees, roles, id)
    IN  /\ module = "dataAccess"
        /\ resp' = Response("dataAccess.getEmployeeDetails", IntToText(id), 0,
                            IF rows = <<>> THEN <<>> ELSE <<rows[1]>>)
        /\ UNCHANGED <<module, employees, seq, roles, idLog, scen>>

DaGetEmployeeDetails == \E id \in DaIds : DaGetEmployeeDetailsOn(id)

\* The step in which the server answers req.
Serve(req) ==
    LET h == Dispatch(req)
    IN  \/ h = "createEmployee" /\ CreateEmployeeOn(req)
        \/ h = "getEmployee" /\ GetEmployeeOn(req)
        \/ h = "updateEmployee" /\ UpdateEmployeeOn(req)
        \/ h = "deleteEmployee" /\ DeleteEmployeeOn(req)
        \/ h = "assignRole" /\ AssignRoleOn(req)
        \/ h = "searchEmployees" /\ SearchEmployeesOn(req)
        \/ h = "totalEmployees" /\ TotalEmployeesOn(req)
        \/ h = "totalRoles" /\ TotalRolesOn(req)
        \/ h = "createRole" /\ CreateRoleOn(req)
        \/ h = "deleteRole" /\ DeleteRoleOn(req)
        \/ h = "updateStatus" /\ UpdateStatusOn(req)
        \/ h = "employeeDetails" /\ EmployeeDetailsOn(req)

---------------------------------------------------------------------------
(* The specifications *)

\* Both databases start with the two tables created and empty.
Init ==
    /\ module \in {"server", "dataAccess"}
    /\ employees = <<>>
    /\ seq = 0
    /\ roles = <<>>
    /\ resp = Response("none", <<>>, 0, <<>>)
    /\ idLog = <<>>
    /\ scen = 0

\* The server's requests, each answered by the handler the router picks, and
\* the data-access module's calls. The router hands no request to the search
\* handler (SearchEmployeesRequests is empty), so it takes no step here.
Next ==
    \/ CreateEmployee
    \/ GetEmployee
    \/ UpdateEmployee
    \/ DeleteEmployee
    \/ AssignRole
    \/ TotalEmployees
    \/ TotalRoles
    \/ CreateRole
    \/ DeleteRole
    \/ UpdateStatus
    \/ EmployeeDetails
    \/ DaCreateEmployee
    \/ DaGetEmployeeById
    \/ DaUpdateEmployee
    \/ DaDeleteEmployee
    \/ DaAssignRoleToEmployee
    \/ DaSearchEmployeesByName
    \/ DaGetTotalEmployees
    \/ DaGetTotalRoles
    \/ DaCreateRole
    \/ DaDeleteRole
    \/ DaUpdateEmployeeStatus
    \/ DaGetEmployeeDetails

Spec == Init /\ [][Next]_vars

\* The same, with the search handler also called directly on search
\* requests, as it would run were a request handed to it.
NextCalled == Next \/ SearchEmployeesCalled

SpecCalled == Init /\ [][NextCalled]_vars

---------------------------------------------------------------------------
(* Helpers of the properties *)

HasRole(rls, name) == \E i \in 1..Len(rls) : rls[i] = name

Elements(sq) == {sq[k] : k \in 1..Len(sq)}

\* The rows a search answer carries (an error answer carries none).
AnswerRows(r) ==
    IF r.handler = "searchEmployees" /\ r.status # 200 THEN {} ELSE Elements(r.value)

\* q occurs in s at position i, letter for letter.
OccursAt(q, s, i) ==
    /\ i + Len(q) - 1 <= Len(s)
    /\ \A j \in 1..Len(q) : q[j] = s[i + j - 1]

\* s contains q as a case-sensitive substring.
ContainsExactly(q, s) == \E i \in 1..(Len(s) + 1) : OccursAt(q, s, i)

\* piece occurs in s at position i, ignoring ASCII case, with _ standing
\* for any one character.
OccursFoldedAt(piece, s, i) ==
    /\ i + Len(piece) - 1 <= Len(s)
    /\ \A j \in 1..Len(piece) :
          piece[j] = "_" \/ ToLower(piece[j]) = ToLower(s[i + j - 1])

\* s contains q ignoring ASCII case, with _ standing for any one character
\* and % for any run of characters: the pieces of q between its % signs
\* occur in s one after the other.
RECURSIVE ContainsFolded(_, _)
ContainsFolded(q, s) ==
    IF \A j \in 1..Len(q) : q[j] # "%"
    THEN \E i \in 1..(Len(s) + 1) : OccursFoldedAt(q, s, i)
    ELSE LET k == CHOOSE j \in 1..Len(q) :
                      q[j] = "%" /\ \A l \in 1..(j - 1) : q[l] # "%"
             piece == SubSeq(q, 1, k - 1)
             rest == SubSeq(q, k + 1, Len(q))
         IN  \E i \in 1..(Len(s) + 1) :
                /\ OccursFoldedAt(piece, s, i)
                /\ ContainsFolded(rest, SubSeq(s, i + Len(piece), Len(s)))

RowsWhere(Test(_)) ==
    {RowRecord(employees, i) :
        i \in {j \in DOMAIN employees : employees[j].name # NULL /\ Test(employees[j].name)}}

---------------------------------------------------------------------------
(* C1 *)

\* C1: every successful employee create returns an id strictly greater than
\* every id an earlier create returned, deleted employees' ids included: the
\* ids returned, in order, are strictly increasing, and the id in a create's
\* answer is the one just assigned.
C1_IdsStrictlyIncreasing ==
    /\ \A i, j \in 1..Len(idLog) : i < j => idLog[i] < idLog[j]
    /\ resp.handler = "createEmployee" /\ resp.status = 201
          => resp.value[1].id = idLog[Len(idLog)]
    /\ resp.handler = "dataAccess.createEmployee"
          => resp.value[1].lastID = idLog[Len(idLog)]

\* Create, create, delete id 1, create: the third create returns id 3.
C1_Witness ==
    /\ module = "server"
    /\ idLog = <<1, 2, 3>>
    /\ DOMAIN employees = {2, 3}
    /\ resp.handler = "createEmployee" /\ resp.status = 201
    /\ resp.value[1].id = 3

---------------------------------------------------------------------------
(* C2 *)

ByIdHandlers ==
    {"getEmployee", "updateEmployee", "deleteEmployee", "assignRole",
     "updateStatus", "employeeDetails"}

DaByIdFunctions ==
    {"dataAccess.getEmployeeById", "dataAccess.updateEmployee",
     "dataAccess.deleteEmployee", "dataAccess.assignRoleToEmployee",
     "dataAccess.updateEmployeeStatus", "dataAccess.getEmployeeDetails"}

\* The employee id a by-id answer was asked about.
IdAsked(r) ==
    IF r.handler = "dataAccess.assignRoleToEmployee" THEN RowidOfText(r.param[1])
    ELSE RowidOfText(r.param)

\* The answer says that no employee was found: HTTP 404 from the server; no
\* row, or no row changed, from the data-access module.
SignalsNotFound(r) ==
    IF r.handler \in ByIdHandlers THEN r.status = 404
    ELSE IF r.handler \in {"dataAccess.getEmployeeById", "dataAccess.getEmployeeDetails"}
    THEN r.value = <<>>
    ELSE r.value[1].changes = 0

\* C2: for every id that is not the id of a stored employee, GetById, Update,
\* Delete, AssignRole, UpdateStatus and GetDetails signal NotFound and leave
\* the employees and roles tables unchanged.
C2_AbsentIdNotFound ==
    [][ (resp'.handler \in ByIdHandlers \cup DaByIdFunctions
            /\ IdAsked(resp') \notin DOMAIN employees)
        => (SignalsNotFound(resp') /\ employees' = employees /\ roles' = roles) ]_vars

\* The same of the server's handlers alone.
C2_ServerAbsentIdNotFound ==
    [][ (resp'.handler \in ByIdHandlers /\ IdAsked(resp') \notin DOMAIN employees)
        => (SignalsNotFound(resp') /\ employees' = employees /\ roles' = roles) ]_vars

---------------------------------------------------------------------------
(* C3 *)

\* What a GetById returns for a field an Update sent: the value, or null
\* for a field the Update left out.
Stored(v) == IF v = UNDEFINED THEN NULL ELSE v

\* C3: after an Update of an existing employee, GetById of that id returns
\* the same id and exactly the name, role and status the Update sent; a
\* field the Update left out is null, whatever it held before.
C3_UpdateThenGet ==
    [][ /\ (resp'.handler = "updateEmployee" /\ resp'.status = 200) =>
              \A req \in UpdateEmployeeRequests :
                 (req.path[2] = resp'.param /\ UpdateEmployeeOn(req))
                 => GetEmployeeResponse(employees', req.path[2]) =
                       Response("getEmployee", req.path[2], 200,
                                <<[id |-> RowidOfText(req.path[2]),
                                   name |-> Stored(req.body.name),
                                   role |-> Stored(req.body.role),
                                   status |-> Stored(req.body.status)]>>)
        /\ (resp'.handler = "dataAccess.updateEmployee" /\ resp'.value[1].changes = 1) =>
              \A id \in DaIds, a \in UpdateBodies :
                 (IntToText(id) = resp'.param /\ DaUpdateEmployeeOn(id, a))
                 => SqlSelectEmployee(employees', id) =
                       <<[id |-> id, name |-> Stored(a.name), role |-> Stored(a.role),
                          status |-> Stored(a.status)]>>
      ]_vars

\* An Update of employee 1 that leaves the name out has just succeeded, and
\* the stored name is null.
C3_Witness ==
    /\ module = "server"
    /\ resp = Response("updateEmployee", <<"1">>, 200,
                       JsonEcho(<<"1">>, Body(UNDEFINED, Eng, Active)))
    /\ employees[1] = [name |-> NULL, role |-> Eng, status |-> Active]

---------------------------------------------------------------------------
(* C4 *)

\* C4: a GET /employees/search?name=q request is answered by the search
\* handler, with 200 and the matching records when an employee matches q.
C4_SearchIsRouted ==
    [][ \A req \in SearchRequests :
           LET rows == SqlSelectNameLike(employees, <<"%">> \o req.query \o <<"%">>)
           IN  (Serve(req) /\ rows # <<>>)
               => (resp'.handler = "searchEmployees" /\ resp'.status = 200
                   /\ resp'.value = rows) ]_vars

\* No request of the model reaches the search handler through the router.
C4_SearchHandlerUnreached == SearchEmployeesRequests = {}

---------------------------------------------------------------------------
(* C5 *)

SearchAnswers == {"searchEmployees", "dataAccess.searchEmployeesByName"}

\* C5 as stated: SearchByName returns exactly the stored employees whose name
\* contains the query as a case-sensitive substring.
C5_CaseSensitiveSubstring ==
    resp.handler \in SearchAnswers
       => AnswerRows(resp) = RowsWhere(LAMBDA n : ContainsExactly(resp.param, n))

\* C5 as amended: the search handler's answer carries exactly the stored
\* employees whose name contains the query ignoring ASCII case, where _ in
\* the query stands for any one character and % for any run of characters
\* (each once, in id order); dataAccess.searchEmployeesByName yields exactly
\* those whose name equals the query.
C5_SearchSelection ==
    /\ resp.handler = "searchEmployees"
          => /\ AnswerRows(resp) = RowsWhere(LAMBDA n : ContainsFolded(resp.param, n))
             /\ resp.status = 200 =>
                   \A i, j \in 1..Len(resp.value) :
                       i < j => resp.value[i].id < resp.value[j].id
    /\ resp.handler = "dataAccess.searchEmployeesByName"
          => /\ AnswerRows(resp) = RowsWhere(LAMBDA n : n = resp.param)
             /\ Len(resp.value) = Cardinality(AnswerRows(resp))

\* The search handler answered the query AN with the employee Ana.
C5_Witness ==
    /\ resp.handler = "searchEmployees"
    /\ resp.param = <<"A", "N">>
    /\ resp.status = 200
    /\ \E k \in 1..Len(resp.value) : resp.value[k].name = Ana

---------------------------------------------------------------------------
(* C6 *)

\* C6: when no stored employee matches the query, SearchByName succeeds with
\* an empty result set; it reports neither an error nor NotFound.
C6_NoMatchIsEmptySuccess ==
    /\ (resp.handler = "searchEmployees"
        /\ SqlSelectNameLike(employees, <<"%">> \o resp.param \o <<"%">>) = <<>>)
          => (resp.status = 200 /\ resp.value = <<>>)
    /\ (resp.handler = "dataAccess.searchEmployeesByName"
        /\ SqlSelectNameEquals(employees, resp.param) = <<>>)
          => resp.value = <<>>

---------------------------------------------------------------------------
(* C7 *)

---------------------------------------------------------------------------
(* C8 *)

NoDuplicateRoles(rls) == \A i, j \in 1..Len(rls) : rls[i] = rls[j] => i = j

ScenarioCodes(r, n) ==
    /\ n = 1 => r = Response("createRole", Eng, 201, <<[name |-> Eng]>>)
    /\ n = 2 => r.handler = "createRole" /\ r.status = 500
    /\ n = 3 => r.handler = "deleteRole" /\ r.status = 200
    /\ n = 4 => r.handler = "deleteRole" /\ r.status = 404

\* C8: role names stay unique; creating a role whose name is in the table is
\* answered 500 and leaves the table as it was, creating any other named
\* role is answered 201 and adds it; deleting a role is answered 200 when
\* the name is in the table (and removes it) and 404 otherwise; so create
\* eng, create eng, delete eng, delete eng is answered 201, 500, 200, 404.
C8_RoleNamesUnique ==
    [][ /\ NoDuplicateRoles(roles')
        /\ resp'.handler = "createRole" =>
           \A req \in CreateRoleRequests :
              (req.body.name \notin {UNDEFINED, Empty} /\ CreateRoleOn(req))
              => IF HasRole(roles, req.body.name)
                 THEN resp'.status = 500 /\ roles' = roles
                 ELSE resp'.status = 201 /\ roles' = Append(roles, req.body.name)
        /\ resp'.handler = "deleteRole" =>
           \A req \in DeleteRoleRequests :
              DeleteRoleOn(req)
              => IF HasRole(roles, req.path[3])
                 THEN resp'.status = 200 /\ ~HasRole(roles', req.path[3])
                 ELSE resp'.status = 404 /\ roles' = roles
        /\ ScenarioCodes(resp', scen') ]_vars

\* The four requests of the scenario have just been made in a row.
C8_Witness == scen = 4 /\ resp.handler = "deleteRole" /\ resp.status = 404

---------------------------------------------------------------------------
(* C9 *)

RoleAnswers ==
    {"createRole", "deleteRole", "dataAccess.createRole", "dataAccess.deleteRole"}

\* C9: creating or deleting a role leaves the employees table unchanged,
\* the rows whose role is the deleted name included.
C9_RoleOpsKeepEmployees ==
    [][ resp'.handler \in RoleAnswers => employees' = employees ]_vars

\* A role has just been deleted and an employee still has it as its role.
C9_Witness ==
    /\ resp.handler = "deleteRole" /\ resp.status = 200
    /\ ~HasRole(roles, resp.param)
    /\ \E i \in DOMAIN employees : employees[i].role = resp.param

---------------------------------------------------------------------------
(* C10 *)

DetailsAnswers == {"employeeDetails", "dataAccess.getEmployeeDetails"}

\* C10: GetDetails of a stored employee succeeds with one record: the
\* employee's fields and roleName, which is the employee's role when the
\* roles table holds that name and null otherwise; NotFound is signalled
\* only when no employee has the id.
C10_DetailsJoin ==
    resp.handler \in DetailsAnswers =>
        LET id == RowidOfText(resp.param)
        IN  IF id \in DOMAIN employees
            THEN /\ resp.handler = "employeeDetails" => resp.status = 200
                 /\ resp.value =
                       <<[id |-> id, name |-> employees[id].name,
                          role |-> employees[id].role,
                          status |-> employees[id].status,
                          roleName |-> IF HasRole(roles, employees[id].role)
                                       THEN employees[id].role ELSE NULL]>>
            ELSE /\ resp.handler = "employeeDetails" => resp.status = 404
                 /\ resp.handler = "dataAccess.getEmployeeDetails" => resp.value = <<>>

\* The details of an employee whose role eng has no row in roles: 200 with
\* roleName null.
C10_Witness ==
    /\ resp.handler = "employeeDetails" /\ resp.status = 200
    /\ resp.value[1].role = Eng
    /\ resp.value[1].roleName = NULL

---------------------------------------------------------------------------
(* C11 *)

AssignRoleAnswers == {"assignRole", "dataAccess.assignRoleToEmployee"}

\* The role an AssignRole answer was asked to assign: the role argument of
\* the data-access call, the role of the request body on the server.
RoleAsked(r) ==
    IF r.handler = "dataAccess.assignRoleToEmployee" THEN r.param[2]
    ELSE (CHOOSE req \in AssignRoleRequests : req.path[2] = r.param).body.role

\* The employees table after the role of row id alone has been set.
WithRole(emps, id, role) == [emps EXCEPT ![id].role = role]

\* C11: AssignRole(id, role) on the id of a stored employee sets the role of
\* that employee to the given role and changes nothing else: its id, name
\* and status, every other employee row and the roles table are unchanged.
C11_AssignRoleFrame ==
    [][ (resp'.handler \in AssignRoleAnswers
            /\ IdAsked(resp') \in DOMAIN employees)
        => (/\ employees' = WithRole(employees, IdAsked(resp'), RoleAsked(resp'))
            /\ roles' = roles) ]_vars

\* The same of the server's handler alone.
C11_ServerAssignRoleFrame ==
    [][ (resp'.handler = "assignRole" /\ IdAsked(resp') \in DOMAIN employees)
        => (/\ employees' = WithRole(employees, IdAsked(resp'), RoleAsked(resp'))
            /\ roles' = roles) ]_vars

\* The server has assigned a role to one of two stored employees, which had
\* another role before (the other row and the roles table are there to be
\* left alone).
C11_ServerWitness ==
    /\ resp.handler = "assignRole" /\ resp.status = 200
    /\ Cardinality(DOMAIN employees) = 2
    /\ roles # <<>>
    /\ \E i \in DOMAIN employees : employees[i].role # employees[IdAsked(resp)].role

====
